---- MODULE Spec2Model ----
(***************************************************************************)
(* Zero-knowledge file sharing server (H1cham1/File-Encryption).           *)
(*                                                                         *)
(* State machine of the backend: the files table, the upload directory,    *)
(* the logs table, the three express-rate-limit counters, the request      *)
(* handlers in flight (one position per await) and the cleanup script,     *)
(* which runs as a process of its own beside the server.                   *)
(*                                                                         *)
(* Time is counted in whole hours since the epoch, so the source's         *)
(* hoursUntilExpiry * 60 * 60 * 1000 milliseconds is hoursUntilExpiry      *)
(* units of the clock.                                                     *)
(***************************************************************************)
EXTENDS Integers, Sequences, FiniteSets, TLC

(***************************************************************************)
(* Bounds of the model.                                                    *)
(***************************************************************************)
MaxTime == 2          \* the clock runs over 0..MaxTime
MaxFiles == 2         \* uuids the server can hand out
MaxRequests == 3      \* file-route requests accepted in one behaviour
MaxLogins == 7        \* login requests accepted in one behaviour
MaxInflight == 2      \* request handlers suspended at an await at once

(***************************************************************************)
(* Configuration (environment variables) and program constants.           *)
(***************************************************************************)
DEFAULT_EXPIRY_HOURS == 24
RATE_LIMIT_WINDOW == 1      \* RATE_LIMIT_WINDOW_MS, configured to one hour
RATE_LIMIT_MAX == 2         \* RATE_LIMIT_MAX_REQUESTS, configured to 2
AUTH_LIMIT_MAX == 5

NullId == 0
Users == {"alice", "bob"}
Ips == {"ip1", "ip2"}
Ids == 1..MaxFiles
MalformedId == -1

(***************************************************************************)
(* JavaScript numbers, Dates and ISO strings.                              *)
(***************************************************************************)
\* a Number: NaN or an integer
Num(v) == [nan |-> FALSE, v |-> v]
NaN == [nan |-> TRUE, v |-> 0]

\* a form field: absent (undefined) or a text, a sequence of characters
Undefined == [present |-> FALSE, text |-> <<>>]
Text(s) == [present |-> TRUE, text |-> s]

\* a field that the form carries twice reaches the handler as an array
Repeated(s) == [present |-> TRUE, text |-> s, array |-> TRUE]

\* typeof field === 'string'
IsString(f) == f.present /\ "array" \notin DOMAIN f

\* a test for presence that lets the empty string through
Provided(f) == f.present

\* JavaScript truthiness of a form field: undefined and "" are falsy
Truthy(f) == f.present /\ Len(f.text) > 0

Digits == <<"0", "1", "2", "3", "4", "5", "6", "7", "8", "9">>
IsDigit(c) == \E d \in 1..10 : Digits[d] = c
DigitVal(c) == (CHOOSE d \in 1..10 : Digits[d] = c) - 1

RECURSIVE ParseDigits(_, _, _)
ParseDigits(s, i, acc) ==
    IF i > Len(s) \/ ~IsDigit(s[i]) THEN acc
    ELSE ParseDigits(s, i + 1, acc * 10 + DigitVal(s[i]))

\* parseInt(text): optional sign, then the longest run of decimal digits;
\* NaN when there is no digit
parseInt(s) ==
    LET signed == Len(s) > 0 /\ s[1] \in {"-", "+"}
        start == IF signed THEN 2 ELSE 1
    IN  IF start > Len(s) \/ ~IsDigit(s[start]) THEN NaN
        ELSE IF signed /\ s[1] = "-" THEN Num(0 - ParseDigits(s, start, 0))
        ELSE Num(ParseDigits(s, start, 0))

\* a Date: a time value, or the Invalid Date
Date(t) == [valid |-> TRUE, t |-> t]
InvalidDate == [valid |-> FALSE, t |-> 0]

\* new Date(createdAt.getTime() + n * 60 * 60 * 1000)
DatePlusHours(t, n) == IF n.nan THEN InvalidDate ELSE Date(t + n.v)

\* Date.prototype.toISOString: years 0000..9999 print with four digits,
\* later years as +YYYYYY and earlier years as -YYYYYY.  The hour
\* 70389528 is 10000-01-01T00:00Z and -17268672 is 0000-01-01T00:00Z.
FirstHourOfYear10000 == 70389528
FirstHourOfYear0 == -17268672

\* An ISO string is kept as <<class, key>>, ordered as its bytes are:
\* '+' (class 0) < '-' (class 1) < a digit (class 2); within the class of
\* negative years a later instant has the smaller year magnitude.
toISOString(t) ==
    IF t >= FirstHourOfYear10000 THEN <<0, t>>
    ELSE IF t < FirstHourOfYear0 THEN <<1, 0 - t>>
    ELSE <<2, t>>

\* new Date(isoString).getTime()
DateParse(iso) == IF iso[1] = 1 THEN 0 - iso[2] ELSE iso[2]

\* SQLite's comparison of two TEXT values (memcmp)
TextLess(a, b) == a[1] < b[1] \/ (a[1] = b[1] /\ a[2] < b[2])

(***************************************************************************)
(* State.                                                                  *)
(***************************************************************************)
VARIABLES
    now,        \* the wall clock, in hours
    files,      \* files table: id -> row
    disk,       \* upload directory: id (path UPLOAD_DIR/<id>.bin) -> bytes
    usedIds,    \* uuids handed out so far
    logs,       \* logs table, in insertion order
    hits,       \* rate-limit stores: <<policy, ip>> -> [count, resetTime]
    slots,      \* request handlers in flight
    sweep,      \* the cleanup script
    resp,       \* the response sent last
    del,        \* DELETE /api/myfiles/:fileId between unlinkSync and dbRun
    nReq,       \* upload and blob requests accepted so far
    nLogin,     \* login requests accepted so far
    client      \* the browser: the upload in progress, sessionStorage, share link,
                \* the files uploaded and the files a recipient has saved

vars == <<now, files, disk, usedIds, logs, hits, slots, sweep, resp, del, nReq, nLogin,
          client>>

Idle == [pc |-> "idle"]
NoUpload == [active |-> FALSE]
NoLink == [fileId |-> NullId, fragment |-> <<>>]
NoResp == [route |-> "none", status |-> 0]
SweepIdle == [pc |-> "idle", todo |-> {}, cur |-> NullId, total |-> 0,
              deletedCount |-> 0, errorCount |-> 0]

Init ==
    /\ now = 0
    /\ files = <<>>
    /\ disk = <<>>
    /\ usedIds = {}
    /\ logs = <<>>
    /\ hits = <<>>
    /\ slots = [h \in 1..MaxInflight |-> Idle]
    /\ sweep = SweepIdle
    /\ resp = NoResp
    /\ del = Idle
    /\ nReq = 0
    /\ nLogin = 0
    /\ client = [pending |-> NoUpload, fileKeys |-> <<>>, shareLink |-> NoLink,
                 uploaded |-> <<>>, saved |-> <<>>, message |-> "none"]

(***************************************************************************)
(* Helpers on tables.                                                      *)
(***************************************************************************)
Put(f, k, v) == (k :> v) @@ f
Drop(f, k) == [x \in DOMAIN f \ {k} |-> f[x]]

\* the lowest handler slot that is free
FreeSlots == {h \in 1..MaxInflight : slots[h].pc = "idle"}
FreeSlot == CHOOSE h \in FreeSlots : \A g \in FreeSlots : h <= g

\* DELETE /api/myfiles/:fileId is synchronous between unlinkSync and the
\* DELETE statement: no other handler of the server runs in between
ServerBusy == del.pc # "idle"

(***************************************************************************)
(* Rate limiting (express-rate-limit, in-memory store, key = req.ip).      *)
(***************************************************************************)
Policies == {"download", "upload", "auth"}

\* the max option of each limiter, from the configured RATE_LIMIT_MAX:
\* Math.floor(RATE_LIMIT_MAX / 2) for uploads, the literal 5 for logins
CeilingFor(max, policy) ==
    CASE policy = "download" -> max
      [] policy = "upload" -> max \div 2
      [] policy = "auth" -> AUTH_LIMIT_MAX

Ceiling(policy) == CeilingFor(RATE_LIMIT_MAX, policy)

\* keyGenerator: req.ip
keyGenerator(req) == req.ip

\* hits of the key in the running window, before this request
HitsOf(policy, key) ==
    IF <<policy, key>> \in DOMAIN hits /\ hits[<<policy, key>>].resetTime > now
    THEN hits[<<policy, key>>].count ELSE 0

\* the store after this request is counted
Increment(policy, key) ==
    IF HitsOf(policy, key) = 0
    THEN Put(hits, <<policy, key>>, [count |-> 1, resetTime |-> now + RATE_LIMIT_WINDOW])
    ELSE [hits EXCEPT ![<<policy, key>>].count = @ + 1]

\* a limiter that rejects the request that reaches the ceiling
AdmittedBelowCeiling(policy, key) == HitsOf(policy, key) + 1 < Ceiling(policy)

\* the request is let through when its hit is within the ceiling
Admitted(policy, key) == HitsOf(policy, key) + 1 <= Ceiling(policy)

\* a window that has run out is dropped from the store
ResetExpired(store, t) ==
    [k \in {x \in DOMAIN store : store[x].resetTime > t} |-> store[k]]

(***************************************************************************)
(* Audit log (middleware/logging.ts).                                      *)
(***************************************************************************)
NoHeader == "none"

\* getClientIp: the first address of x-forwarded-for when present, else req.ip
getClientIp(req) == IF req.forwarded # NoHeader THEN req.forwarded ELSE req.ip

\* a logEvent that records the event without the id of the file
logEventWithoutFileId(table, rows, ip, eventType, fileId, extra) ==
    Append(table, [ip |-> ip, fileId |-> NullId, eventType |-> eventType,
                   extra |-> extra])

\* logEvent: INSERT INTO logs; the row's fileId is a foreign key into files,
\* so the insert throws for an id that has no row, and the error is swallowed
logEvent(table, rows, ip, eventType, fileId, extra) ==
    IF fileId # NullId /\ fileId \notin DOMAIN rows THEN table
    ELSE Append(table, [ip |-> ip, fileId |-> fileId, eventType |-> eventType,
                        extra |-> extra])

logRequest(table, rows, req, eventType, fileId, extra) ==
    logEvent(table, rows, getClientIp(req), eventType, fileId, extra)

\* a logEvent without its try/catch: the error of the INSERT rejects the
\* promise the handler awaits
logRequestRejectsOnError(rows, fileId) == fileId # NullId /\ fileId \notin DOMAIN rows

\* the promise of logRequest: logEvent catches every error of the INSERT and
\* only prints it, so the promise never rejects
logRequestRejects(rows, fileId) == FALSE

\* the response of a handler that awaits logRequest inside its try block: a
\* rejection would reach the handler's catch, which answers 500
Answer(reply, rejected, failure) == IF rejected THEN failure ELSE reply

\* DELETE FROM files WHERE id = ?: logs.fileId is ON DELETE SET NULL
DeleteRowLogs(table, id) ==
    [i \in DOMAIN table |->
        IF table[i].fileId = id THEN [table[i] EXCEPT !.fileId = NullId] ELSE table[i]]

(***************************************************************************)
(* The clock.                                                              *)
(***************************************************************************)
Tick ==
    /\ now < MaxTime
    /\ now' = now + 1
    /\ hits' = ResetExpired(hits, now + 1)
    /\ resp' = NoResp
    /\ UNCHANGED <<files, disk, usedIds, logs, slots, sweep, del, nReq, nLogin, client>>

(***************************************************************************)
(* GET /api/file/:fileId/blob (routes/file.ts).                            *)
(***************************************************************************)
\* the uuid shape test
IsUuid(fileId) == fileId \in Ids

\* the expiry test of the routes: now > expiryTime, on Date values
IsExpired(t, expiryTime) == t > DateParse(expiryTime)

Requests == [ip : Ips, forwarded : {NoHeader}]

Reply(route, status, fileId, data) ==
    [route |-> route, status |-> status, fileId |-> fileId, data |-> data]

\* the limiter answers 429 itself and does not call the route handler
DownloadRejected(fileId) ==
    /\ resp' = Reply("blob", 429, fileId, "Too many download requests from this IP, please try again later")
    /\ UNCHANGED <<logs, slots>>

\* downloadLimiter, the id check, the lookup and the expiry check
BlobRequest(req, fileId) ==
    /\ ~ServerBusy
    /\ nLogin = 0 /\ nReq < MaxRequests
    /\ nReq' = nReq + 1
    /\ hits' = Increment("download", keyGenerator(req))
    /\ UNCHANGED <<now, files, disk, usedIds, sweep, del, nLogin, client>>
    /\ IF ~Admitted("download", keyGenerator(req))
       THEN DownloadRejected(fileId)
       ELSE IF ~IsUuid(fileId)
       THEN /\ resp' = Reply("blob", 400, fileId, "Invalid file ID format")
            /\ UNCHANGED <<logs, slots>>
       ELSE IF fileId \notin DOMAIN files
       THEN /\ logs' = logRequest(logs, files, req, "NOT_FOUND", fileId, 0)
            /\ resp' = Answer(Reply("blob", 404, fileId, "File not found"),
                               logRequestRejects(files, fileId),
                               Reply("blob", 500, fileId, "Failed to download file"))
            /\ UNCHANGED slots
       ELSE IF IsExpired(now, files[fileId].expiryTime)
       THEN /\ logs' = logRequest(logs, files, req, "EXPIRED", fileId, 0)
            /\ resp' = Answer(Reply("blob", 410, fileId, "File has expired"),
                               logRequestRejects(files, fileId),
                               Reply("blob", 500, fileId, "Failed to download file"))
            /\ UNCHANGED slots
       ELSE /\ FreeSlots # {}
            /\ slots' = [slots EXCEPT ![FreeSlot] =
                            [pc |-> "access", route |-> "blob", req |-> req,
                             fileId |-> fileId, file |-> files[fileId],
                             ciphertext |-> "none"]]
            /\ resp' = NoResp
            /\ UNCHANGED logs

\* a handler that counts the download before it has looked for the bytes
BlobAccessCounting(h) ==
    /\ ~ServerBusy
    /\ slots[h].pc = "access"
    /\ files' = [id \in DOMAIN files |->
                    IF id = slots[h].fileId
                    THEN [files[id] EXCEPT !.downloadCount = @ + 1] ELSE files[id]]
    /\ IF slots[h].fileId \notin DOMAIN disk
       THEN /\ resp' = Reply("blob", 404, slots[h].fileId, "File data not found")
            /\ slots' = [slots EXCEPT ![h] = Idle]
       ELSE /\ slots' = [slots EXCEPT ![h].pc = "read"]
            /\ resp' = NoResp
    /\ UNCHANGED <<now, disk, usedIds, logs, hits, sweep, del, nReq, nLogin, client>>

\* fs.access(file.path)
BlobAccess(h) ==
    /\ ~ServerBusy
    /\ slots[h].pc = "access"
    /\ IF slots[h].fileId \notin DOMAIN disk
       THEN /\ resp' = Reply("blob", 404, slots[h].fileId, "File data not found")
            /\ slots' = [slots EXCEPT ![h] = Idle]
       ELSE /\ slots' = [slots EXCEPT ![h].pc = "read"]
            /\ resp' = NoResp
    /\ UNCHANGED <<now, files, disk, usedIds, logs, hits, sweep, del, nReq, nLogin, client>>

\* fs.readFile(file.path): throws when the bytes are gone, answered 500
BlobRead(h) ==
    /\ ~ServerBusy
    /\ slots[h].pc = "read"
    /\ IF slots[h].fileId \notin DOMAIN disk
       THEN /\ resp' = Reply("blob", 500, slots[h].fileId, "Failed to download file")
            /\ slots' = [slots EXCEPT ![h] = Idle]
       ELSE /\ slots' = [slots EXCEPT ![h].pc = "update",
                                      ![h].ciphertext = disk[slots[h].fileId]]
            /\ resp' = NoResp
    /\ UNCHANGED <<now, files, disk, usedIds, logs, hits, sweep, del, nReq, nLogin, client>>

\* a read-modify-write of the handler: the count it read at the lookup, plus one
IncrementFromLookup(rows, h) ==
    IF slots[h].fileId \in DOMAIN rows
    THEN [rows EXCEPT ![slots[h].fileId].downloadCount = slots[h].file.downloadCount + 1]
    ELSE rows

\* UPDATE files SET downloadCount = downloadCount + 1 WHERE id = ?
IncrementDownloadCount(rows, h) ==
    IF slots[h].fileId \in DOMAIN rows
    THEN [rows EXCEPT ![slots[h].fileId].downloadCount = @ + 1]
    ELSE rows

\* the 200 response: the ciphertext with the row's iv, filename and mimetype
BlobResponse(fileId, ciphertext, file) ==
    [route |-> "blob", status |-> 200, fileId |-> fileId, data |-> ciphertext,
     iv |-> file.iv, filename |-> file.filename, mimetype |-> file.mimetype]

\* the UPDATE, logRequest DOWNLOAD_OK with file.downloadCount + 1, and the 200
BlobFinish(h) ==
    /\ ~ServerBusy
    /\ slots[h].pc = "update"
    /\ files' = IncrementDownloadCount(files, h)
    /\ logs' = logRequest(logs, files, slots[h].req, "DOWNLOAD_OK", slots[h].fileId,
                          slots[h].file.downloadCount + 1)
    /\ resp' = Answer(BlobResponse(slots[h].fileId, slots[h].ciphertext, slots[h].file),
                       logRequestRejects(files, slots[h].fileId),
                       Reply("blob", 500, slots[h].fileId, "Failed to download file"))
    /\ slots' = [slots EXCEPT ![h] = Idle]
    /\ UNCHANGED <<now, disk, usedIds, hits, sweep, del, nReq, nLogin, client>>

(***************************************************************************)
(* GET /api/file/:fileId/metadata (routes/file.ts).  The route has no      *)
(* limiter.  The handler reads the row once and answers from it.           *)
(***************************************************************************)
\* a response that reports a lapsed record as one that does not exist
FileMetadataResponseLapsedAsMissing(file, t) ==
    [filename |-> file.filename, mimetype |-> file.mimetype,
     createdAt |-> file.createdAt, expiryTime |-> file.expiryTime,
     downloadCount |-> file.downloadCount, exists |-> ~IsExpired(t, file.expiryTime),
     expired |-> IsExpired(t, file.expiryTime)]

\* the FileMetadataResponse built from the row
FileMetadataResponse(file, t) ==
    [filename |-> file.filename, mimetype |-> file.mimetype,
     createdAt |-> file.createdAt, expiryTime |-> file.expiryTime,
     downloadCount |-> file.downloadCount, exists |-> TRUE,
     expired |-> IsExpired(t, file.expiryTime)]

MetadataRequest(req, fileId) ==
    /\ ~ServerBusy
    /\ UNCHANGED <<now, files, disk, usedIds, hits, slots, sweep, del, nReq, nLogin, client>>
    /\ IF ~IsUuid(fileId)
       THEN /\ resp' = Reply("metadata", 400, fileId, "Invalid file ID format")
            /\ UNCHANGED logs
       ELSE IF fileId \notin DOMAIN files
       THEN /\ logs' = logRequest(logs, files, req, "NOT_FOUND", fileId, 0)
            /\ resp' = Answer(Reply("metadata", 404, fileId, "File not found"),
                               logRequestRejects(files, fileId),
                               Reply("metadata", 500, fileId, "Failed to get file metadata"))
       ELSE /\ resp' = Reply("metadata", 200, fileId, FileMetadataResponse(files[fileId], now))
            /\ UNCHANGED logs

(***************************************************************************)
(* JWT authentication (middleware/auth.ts).                                *)
(***************************************************************************)
NoToken == "none"
BadToken == "bad"
Tokens == {NoToken, BadToken} \cup Users     \* a valid token names its user

\* a middleware that asks for a token but never verifies it
authenticateTokenUnverified(token) ==
    IF token = NoToken THEN 401 ELSE 0

\* authenticateToken: 401 without a token, 403 for one that does not verify,
\* 0 when req.user is set
authenticateToken(token) ==
    IF token = NoToken THEN 401 ELSE IF token = BadToken THEN 403 ELSE 0

(***************************************************************************)
(* POST /api/upload (routes/upload.ts).                                    *)
(***************************************************************************)
Valid == Text(<<"x">>)
Empty == Text(<<>>)

ExpiresInInputs ==
    { Undefined, Empty, Text(<<"0">>), Text(<<"1">>), Text(<<"-", "1">>),
      Text(<<"a", "b", "c">>), Text(<<"7", "0", "3", "8", "9", "5", "2", "8">>) }

ValidBody(e) == [iv |-> Valid, filename |-> Valid, mimetype |-> Valid, expiresIn |-> e]

\* the forms with one required field absent or empty
IncompleteBodies ==
    { [ValidBody(Undefined) EXCEPT !.iv = Undefined],
      [ValidBody(Undefined) EXCEPT !.filename = Empty],
      [ValidBody(Undefined) EXCEPT !.mimetype = Undefined] }

\* the form whose iv field is given twice
RepeatedIvBody == [ValidBody(Undefined) EXCEPT !.iv = Repeated(<<"x">>)]

\* the complete forms, with every expiresIn
UploadBodies == { ValidBody(e) : e \in ExpiresInInputs }

NoFile == "none"

\* a file part longer than limits.fileSize
TooLarge == "oversized"

\* an id generator that hands out again the id of a record that is gone
ReusableIds == Ids \ DOMAIN files

\* uuidv4(): an id never handed out before
FreshIds == Ids \ usedIds
uuidv4 == CHOOSE i \in FreshIds : \A j \in FreshIds : i <= j

\* an upload route that ignores the expiresIn field
HoursUntilExpiryDefault(expiresIn) == Num(DEFAULT_EXPIRY_HOURS)

\* const hoursUntilExpiry = expiresIn ? parseInt(expiresIn) : DEFAULT_EXPIRY_HOURS
HoursUntilExpiry(expiresIn) ==
    IF Truthy(expiresIn) THEN parseInt(expiresIn.text) ELSE Num(DEFAULT_EXPIRY_HOURS)

\* a limiter placed after multer and the write of the bytes
UploadRejectedAfterWrite(file) ==
    /\ resp' = Reply("upload", 429, NullId, "Too many upload requests from this IP, please try again later")
    /\ FreshIds # {} /\ file # NoFile
    /\ disk' = Put(disk, uuidv4, file)
    /\ UNCHANGED <<usedIds, logs, slots>>

\* the limiter answers 429 before multer and the route handler run
UploadRejected(file) ==
    /\ resp' = Reply("upload", 429, NullId, "Too many upload requests from this IP, please try again later")
    /\ UNCHANGED <<disk, usedIds, logs, slots>>

\* authenticateToken, uploadLimiter, upload.single('file'), the validation,
\* and the write of the bytes.  multer passes the LIMIT_FILE_SIZE error of a
\* file that is too large to next(): the route handler, its try/catch
\* included, does not run, and the global error handler of the application
\* answers 500 "Internal server error"
UploadRequest(req, token, file, body) ==
    /\ ~ServerBusy
    /\ nLogin = 0 /\ nReq < MaxRequests
    /\ nReq' = nReq + 1
    /\ UNCHANGED <<now, files, sweep, del, nLogin, client>>
    /\ IF authenticateToken(token) # 0
       THEN /\ resp' = Reply("upload", authenticateToken(token), NullId, "auth")
            /\ UNCHANGED <<disk, usedIds, logs, hits, slots>>
       ELSE /\ hits' = Increment("upload", keyGenerator(req))
            /\ IF ~Admitted("upload", keyGenerator(req))
               THEN UploadRejected(file)
               ELSE IF file = TooLarge
               THEN /\ resp' = Reply("upload", 500, NullId, "Internal server error")
                    /\ UNCHANGED <<disk, usedIds, logs, slots>>
               ELSE IF file = NoFile
               THEN /\ logs' = logRequest(logs, files, req, "UPLOAD_FAILED", NullId, 0)
                    /\ resp' = Reply("upload", 400, NullId, "File is required")
                    /\ UNCHANGED <<disk, usedIds, slots>>
               ELSE IF ~Truthy(body.iv) \/ ~Truthy(body.filename) \/ ~Truthy(body.mimetype)
               THEN /\ logs' = logRequest(logs, files, req, "UPLOAD_FAILED", NullId, 0)
                    /\ resp' = Reply("upload", 400, NullId, "IV, filename, and mimetype are required")
                    /\ UNCHANGED <<disk, usedIds, slots>>
               ELSE IF ~IsString(body.iv) \/ Len(body.iv.text) = 0
               THEN /\ resp' = Reply("upload", 400, NullId, "Invalid IV format")
                    /\ UNCHANGED <<disk, usedIds, logs, slots>>
               ELSE /\ FreeSlots # {} /\ FreshIds # {}
                    /\ usedIds' = usedIds \cup {uuidv4}
                    /\ disk' = Put(disk, uuidv4, file)
                    /\ slots' = [slots EXCEPT ![FreeSlot] =
                                    [pc |-> "insert", route |-> "upload", req |-> req,
                                     user |-> token, fileId |-> uuidv4,
                                     iv |-> body.iv, filename |-> body.filename,
                                     mimetype |-> body.mimetype,
                                     createdAt |-> now,
                                     expiryTime |-> DatePlusHours(now,
                                                       HoursUntilExpiry(body.expiresIn))]]
                    /\ resp' = NoResp
                    /\ UNCHANGED logs

\* the row of INSERT INTO files
NewRow(h) ==
    [ownerId |-> slots[h].user,
     iv |-> slots[h].iv, filename |-> slots[h].filename, mimetype |-> slots[h].mimetype,
     createdAt |-> toISOString(slots[h].createdAt),
     expiryTime |-> toISOString(slots[h].expiryTime.t),
     downloadCount |-> 0]

\* a handler whose INSERT has taken effect when the error is caught
UploadInsertDespiteError(h) ==
    /\ ~ServerBusy
    /\ slots[h].pc = "insert"
    /\ slots' = [slots EXCEPT ![h] = Idle]
    /\ UNCHANGED <<now, disk, usedIds, hits, sweep, del, nReq, nLogin, client>>
    /\ files' = Put(files, slots[h].fileId, NewRow(h))
    /\ IF ~slots[h].expiryTime.valid
       THEN /\ logs' = logRequest(logs, files, slots[h].req, "UPLOAD_FAILED", NullId, 0)
            /\ resp' = Reply("upload", 500, NullId, "Failed to upload file")
       ELSE /\ logs' = logRequest(logs, Put(files, slots[h].fileId, NewRow(h)),
                                  slots[h].req, "UPLOAD_OK", slots[h].fileId, 0)
            /\ resp' = Reply("upload", 201, slots[h].fileId, NewRow(h).expiryTime)

\* expiryTime.toISOString() throws a RangeError on the Invalid Date: the
\* catch block logs UPLOAD_FAILED and answers 500; else the row is inserted
UploadInsert(h) ==
    /\ ~ServerBusy
    /\ slots[h].pc = "insert"
    /\ slots' = [slots EXCEPT ![h] = Idle]
    /\ UNCHANGED <<now, disk, usedIds, hits, sweep, del, nReq, nLogin, client>>
    /\ IF ~slots[h].expiryTime.valid
       THEN /\ logs' = logRequest(logs, files, slots[h].req, "UPLOAD_FAILED", NullId, 0)
            /\ resp' = Reply("upload", 500, NullId, "Failed to upload file")
            /\ UNCHANGED files
       ELSE /\ files' = Put(files, slots[h].fileId, NewRow(h))
            /\ logs' = logRequest(logs, Put(files, slots[h].fileId, NewRow(h)),
                                  slots[h].req, "UPLOAD_OK", slots[h].fileId, 0)
            /\ resp' = Reply("upload", 201, slots[h].fileId, NewRow(h).expiryTime)

(***************************************************************************)
(* DELETE /api/myfiles/:fileId (routes/myfiles.ts).                        *)
(***************************************************************************)
\* a lookup by id alone: SELECT * FROM files WHERE id = ?
FileById(fileId, userId) == fileId \in DOMAIN files

\* SELECT * FROM files WHERE id = ? AND ownerId = ?
OwnedFile(fileId, userId) ==
    fileId \in DOMAIN files /\ files[fileId].ownerId = userId

\* fs.unlinkSync(path) throws when there is no such file
unlinkSyncThrows(store, fileId) == fileId \notin DOMAIN store

\* a handler without the inner try/catch: the error of unlinkSync reaches
\* the outer catch, which answers 500 and leaves the row
DeleteRequestSurfacingDiskError(token, fileId) ==
    /\ ~ServerBusy
    /\ UNCHANGED <<now, files, usedIds, logs, hits, slots, sweep, nReq, nLogin, client>>
    /\ IF authenticateToken(token) # 0
       THEN /\ resp' = Reply("delete", authenticateToken(token), fileId, "auth")
            /\ UNCHANGED <<disk, del>>
       ELSE IF ~OwnedFile(fileId, token)
       THEN /\ resp' = Reply("delete", 404, fileId,
                             "File not found or you do not own this file")
            /\ UNCHANGED <<disk, del>>
       ELSE IF unlinkSyncThrows(disk, fileId)
       THEN /\ resp' = Reply("delete", 500, fileId, "Failed to delete file")
            /\ UNCHANGED <<disk, del>>
       ELSE /\ disk' = Drop(disk, fileId)
            /\ del' = [pc |-> "delete_row", fileId |-> fileId, user |-> token,
                        failed |-> FALSE]
            /\ resp' = NoResp

\* authenticateToken, the lookup, and unlinkSync: an error of unlinkSync is
\* caught and printed (failed), and the handler goes on
DeleteRequest(token, fileId) ==
    /\ ~ServerBusy
    /\ UNCHANGED <<now, files, usedIds, logs, hits, slots, sweep, nReq, nLogin, client>>
    /\ IF authenticateToken(token) # 0
       THEN /\ resp' = Reply("delete", authenticateToken(token), fileId, "auth")
            /\ UNCHANGED <<disk, del>>
       ELSE IF ~OwnedFile(fileId, token)
       THEN /\ resp' = Reply("delete", 404, fileId,
                             "File not found or you do not own this file")
            /\ UNCHANGED <<disk, del>>
       ELSE /\ disk' = Drop(disk, fileId)
            /\ del' = [pc |-> "delete_row", fileId |-> fileId, user |-> token,
                        failed |-> unlinkSyncThrows(disk, fileId)]
            /\ resp' = NoResp

\* a SELECT without its WHERE clause: every row of the table
AnyOwner(rows, userId) == DOMAIN rows

\* SELECT * FROM files WHERE ownerId = ?
OwnedBy(rows, userId) == {id \in DOMAIN rows : rows[id].ownerId = userId}

\* the orders ORDER BY createdAt DESC allows: rows with the same createdAt
\* may come in either order
NewestFirst(rows, ids) ==
    {q \in [1..Cardinality(ids) -> ids] :
        /\ \A i, j \in DOMAIN q : i # j => q[i] # q[j]
        /\ \A i, j \in DOMAIN q :
              i < j => ~TextLess(rows[q[i]].createdAt, rows[q[j]].createdAt)}

\* an entry of the listing
FileInfo(rows, id, t) ==
    [id |-> id, createdAt |-> rows[id].createdAt, expiryTime |-> rows[id].expiryTime,
     downloadCount |-> rows[id].downloadCount,
     expired |-> IsExpired(t, rows[id].expiryTime)]

\* GET /api/myfiles: authenticateToken, the SELECT, and the 200 response
ListRequest(token) ==
    /\ ~ServerBusy
    /\ UNCHANGED <<now, files, disk, usedIds, logs, hits, slots, sweep, del, nReq, nLogin, client>>
    /\ IF authenticateToken(token) # 0
       THEN resp' = Reply("list", authenticateToken(token), NullId, "auth")
       ELSE \E q \in NewestFirst(files, OwnedBy(files, token)) :
               resp' = Reply("list", 200, NullId,
                             [i \in DOMAIN q |-> FileInfo(files, q[i], now)])

\* DELETE FROM files WHERE id = ?, then the 200 response
DeleteRow ==
    /\ del.pc = "delete_row"
    /\ files' = Drop(files, del.fileId)
    /\ logs' = DeleteRowLogs(logs, del.fileId)
    /\ resp' = Reply("delete", 200, del.fileId, "File deleted successfully")
    /\ del' = Idle
    /\ UNCHANGED <<now, disk, usedIds, hits, slots, sweep, nReq, nLogin, client>>

(***************************************************************************)
(* The cleanup script (scripts/cleanup.ts), a process beside the server.   *)
(***************************************************************************)
\* SELECT * FROM files WHERE expiryTime < ?  with now.toISOString()
SelectExpired(rows, t) ==
    {id \in DOMAIN rows : TextLess(rows[id].expiryTime, toISOString(t))}

\* with nothing expired the script prints "No expired files found" and ends
SweepStart ==
    /\ sweep.pc = "idle"
    /\ sweep' = IF SelectExpired(files, now) = {} THEN SweepIdle
                ELSE [pc |-> "unlink", todo |-> SelectExpired(files, now), cur |-> NullId,
                      total |-> Cardinality(SelectExpired(files, now)),
                      deletedCount |-> 0, errorCount |-> 0]
    /\ resp' = NoResp
    /\ UNCHANGED <<now, files, disk, usedIds, logs, hits, slots, del, nReq, nLogin, client>>

\* fs.unlinkSync(file.path): a missing file is only a warning
SweepUnlink(id) ==
    /\ sweep.pc = "unlink"
    /\ id \in sweep.todo
    /\ disk' = Drop(disk, id)
    /\ sweep' = [sweep EXCEPT !.pc = "delete", !.cur = id]
    /\ resp' = NoResp
    /\ UNCHANGED <<now, files, usedIds, logs, hits, slots, del, nReq, nLogin, client>>

\* dbRun('DELETE FROM files WHERE id = ?'), deletedCount++
SweepDelete ==
    /\ sweep.pc = "delete"
    /\ files' = Drop(files, sweep.cur)
    /\ logs' = DeleteRowLogs(logs, sweep.cur)
    /\ sweep' = [sweep EXCEPT !.pc = IF sweep.todo = {sweep.cur} THEN "done" ELSE "unlink",
                              !.todo = @ \ {sweep.cur},
                              !.cur = NullId,
                              !.deletedCount = @ + 1]
    /\ resp' = NoResp
    /\ UNCHANGED <<now, disk, usedIds, hits, slots, del, nReq, nLogin, client>>

\* a handler of the loop that gives up at the first error: the records
\* left in the batch are not looked at
SweepDeleteFailsAborting ==
    /\ sweep.pc = "delete"
    /\ sweep' = [sweep EXCEPT !.pc = "done", !.cur = NullId, !.errorCount = @ + 1]
    /\ resp' = NoResp
    /\ UNCHANGED <<now, files, disk, usedIds, logs, hits, slots, del, nReq, nLogin, client>>

\* dbRun throws (the database is locked or the disk fails): the catch of the
\* loop body counts the error, the row is left, and the loop goes on
SweepDeleteFails ==
    /\ sweep.pc = "delete"
    /\ sweep' = [sweep EXCEPT !.pc = IF sweep.todo = {sweep.cur} THEN "done" ELSE "unlink",
                              !.todo = @ \ {sweep.cur},
                              !.cur = NullId,
                              !.errorCount = @ + 1]
    /\ resp' = NoResp
    /\ UNCHANGED <<now, files, disk, usedIds, logs, hits, slots, del, nReq, nLogin, client>>

\* the summary is printed, closeDatabase(), and the process ends
SweepExit ==
    /\ sweep.pc = "done"
    /\ sweep' = SweepIdle
    /\ resp' = NoResp
    /\ UNCHANGED <<now, files, disk, usedIds, logs, hits, slots, del, nReq, nLogin, client>>

(***************************************************************************)
(* POST /api/auth/login (routes/auth.ts).                                  *)
(***************************************************************************)
Credentials == {"missing", "unknown user", "wrong password", "good"}

LoginRequest(req, cred) ==
    /\ ~ServerBusy
    /\ nReq = 0 /\ nLogin < MaxLogins
    /\ nLogin' = nLogin + 1
    /\ hits' = Increment("auth", keyGenerator(req))
    /\ UNCHANGED <<now, files, disk, usedIds, slots, sweep, del, nReq, client>>
    /\ IF ~Admitted("auth", keyGenerator(req))
       THEN /\ resp' = Reply("login", 429, NullId, "Too many login attempts from this IP, please try again later")
            /\ UNCHANGED logs
       ELSE IF cred = "missing"
       THEN /\ logs' = logRequest(logs, files, req, "AUTH_FAILED", NullId, 0)
            /\ resp' = Reply("login", 400, NullId, "Email and password are required")
       ELSE IF cred # "good"
       THEN /\ logs' = logRequest(logs, files, req, "AUTH_FAILED", NullId, 0)
            /\ resp' = Reply("login", 401, NullId, "Invalid credentials")
       ELSE /\ resp' = Reply("login", 200, NullId, "token")
            /\ UNCHANGED logs

(***************************************************************************)
(* The browser (frontend: crypto.ts, api.ts, main.ts).                     *)
(*                                                                         *)
(* Bytes are sequences of numbers 0..255 and strings are sequences of      *)
(* characters.  A ciphertext is named by the key that sealed it.           *)
(***************************************************************************)
Base64Chars ==
    << "A", "B", "C", "D", "E", "F", "G", "H", "I", "J", "K", "L", "M", "N", "O", "P",
       "Q", "R", "S", "T", "U", "V", "W", "X", "Y", "Z", "a", "b", "c", "d", "e", "f",
       "g", "h", "i", "j", "k", "l", "m", "n", "o", "p", "q", "r", "s", "t", "u", "v",
       "w", "x", "y", "z", "0", "1", "2", "3", "4", "5", "6", "7", "8", "9", "+", "/" >>

\* btoa(String.fromCharCode(...bytes)): three bytes give four characters,
\* the last group is padded with "="
RECURSIVE btoaFrom(_, _)
btoaFrom(bytes, i) ==
    IF i > Len(bytes) THEN <<>>
    ELSE LET b1 == bytes[i]
             b2 == IF i + 1 <= Len(bytes) THEN bytes[i + 1] ELSE 0
             b3 == IF i + 2 <= Len(bytes) THEN bytes[i + 2] ELSE 0
         IN  << Base64Chars[(b1 \div 4) + 1],
                Base64Chars[((b1 % 4) * 16 + b2 \div 16) + 1],
                IF i + 1 <= Len(bytes)
                THEN Base64Chars[((b2 % 16) * 4 + b3 \div 64) + 1] ELSE "=",
                IF i + 2 <= Len(bytes) THEN Base64Chars[(b3 % 64) + 1] ELSE "=" >>
             \o btoaFrom(bytes, i + 3)

btoa(bytes) == btoaFrom(bytes, 1)

\* an encoder that replaces "+" and "/" but keeps the padding
toBase64UrlPadded(bytes) ==
    LET base64 == btoa(bytes)
    IN  [i \in DOMAIN base64 |->
            IF base64[i] = "+" THEN "-"
            ELSE IF base64[i] = "/" THEN "_" ELSE base64[i]]

\* toBase64Url: "+" becomes "-", "/" becomes "_", and the padding is dropped
toBase64Url(bytes) ==
    LET base64 == btoa(bytes)
        urlSafe == [i \in DOMAIN base64 |->
                       IF base64[i] = "+" THEN "-"
                       ELSE IF base64[i] = "/" THEN "_" ELSE base64[i]]
        NotPadding(c) == c # "="
    IN  SelectSeq(urlSafe, NotPadding)

\* the value of a character in the base64 alphabet, 0..63
IsBase64Char(c) == \E i \in DOMAIN Base64Chars : Base64Chars[i] = c
Base64Value(c) == (CHOOSE i \in DOMAIN Base64Chars : Base64Chars[i] = c) - 1

\* the outcome of a decoding: the bytes, or the InvalidCharacterError thrown
Decoded(bytes) == [ok |-> TRUE, bytes |-> bytes]
InvalidCharacterError == [ok |-> FALSE, bytes |-> <<>>]

\* atob, step 1: when the length is a multiple of four, one or two "=" at
\* the end are removed
StripPadding(s) ==
    IF Len(s) > 0 /\ Len(s) % 4 = 0 /\ s[Len(s)] = "="
    THEN IF s[Len(s) - 1] = "=" THEN SubSeq(s, 1, Len(s) - 2)
         ELSE SubSeq(s, 1, Len(s) - 1)
    ELSE s

\* atob, step 2: four characters give three bytes; two or three characters
\* left over give one or two bytes, the spare bits are dropped
RECURSIVE atobFrom(_, _)
atobFrom(data, i) ==
    IF i > Len(data) THEN <<>>
    ELSE LET c1 == Base64Value(data[i])
             c2 == Base64Value(data[i + 1])
             c3 == IF i + 2 <= Len(data) THEN Base64Value(data[i + 2]) ELSE 0
             c4 == IF i + 3 <= Len(data) THEN Base64Value(data[i + 3]) ELSE 0
         IN  << c1 * 4 + c2 \div 16 >>
             \o (IF i + 2 <= Len(data) THEN << (c2 % 16) * 16 + c3 \div 4 >> ELSE <<>>)
             \o (IF i + 3 <= Len(data) THEN << (c3 % 4) * 64 + c4 >> ELSE <<>>)
             \o atobFrom(data, i + 4)

\* atob(text): throws on a character outside the alphabet and on a length
\* that leaves one character over
atob(text) ==
    LET data == StripPadding(text)
    IN  IF Len(data) % 4 = 1 \/ \E i \in DOMAIN data : ~IsBase64Char(data[i])
        THEN InvalidCharacterError
        ELSE Decoded(atobFrom(data, 1))

\* a decoder that takes the fragment for plain base64: no "-" and "_"
fromBase64UrlAsBase64(base64url) ==
    atob(base64url \o [i \in 1..((4 - (Len(base64url) % 4)) % 4) |-> "="])

\* fromBase64Url: "-" becomes "+", "_" becomes "/", "=" is appended until
\* the length is a multiple of four, then atob and charCodeAt
fromBase64Url(base64url) ==
    LET base64 == [i \in DOMAIN base64url |->
                      IF base64url[i] = "-" THEN "+"
                      ELSE IF base64url[i] = "_" THEN "/" ELSE base64url[i]]
        padded == base64 \o [i \in 1..((4 - (Len(base64) % 4)) % 4) |-> "="]
    IN  atob(padded)

\* generateKey(): an extractable AES-GCM key; exportKey gives its raw bytes
CryptoKey(raw) == [algorithm |-> "AES-GCM", extractable |-> TRUE, raw |-> raw]
Keys == { CryptoKey(<<251, 255>>), CryptoKey(<<0, 16>>) }
exportKey(key) == key.raw

\* generateIV(): crypto.getRandomValues(new Uint8Array(12))
IV_LENGTH == 12
Ivs == { [i \in 1..IV_LENGTH |-> i] }

\* importKey(keyData): the key with these raw bytes
importKey(keyData) == CryptoKey(keyData)

\* the file picked in the form, and a second file with other bytes
PickedFile == [name |-> <<"a">>, type |-> <<"t">>, size |-> <<"9">>, content |-> "plain"]
OtherFile == [name |-> <<"b">>, type |-> <<"t">>, size |-> <<"9">>, content |-> "other"]
PickedFiles == {PickedFile, OtherFile}

\* AES-GCM (crypto.subtle): each plaintext, key and iv has a ciphertext of
\* its own, a string of the model
AesGcm ==
    { [ciphertext |-> "ct1", plaintext |-> "plain", raw |-> <<251, 255>>, iv |-> iv] :
         iv \in Ivs } \cup
    { [ciphertext |-> "ct2", plaintext |-> "plain", raw |-> <<0, 16>>, iv |-> iv] :
         iv \in Ivs } \cup
    { [ciphertext |-> "ct3", plaintext |-> "other", raw |-> <<251, 255>>, iv |-> iv] :
         iv \in Ivs } \cup
    { [ciphertext |-> "ct4", plaintext |-> "other", raw |-> <<0, 16>>, iv |-> iv] :
         iv \in Ivs }

\* encryptFile(file, key, iv): the bytes of the file under key and iv
encryptFile(file, key, iv) ==
    (CHOOSE e \in AesGcm :
        e.plaintext = file.content /\ e.raw = exportKey(key) /\ e.iv = iv).ciphertext

\* the outcome of a decryption: the plaintext, or the OperationError thrown
Plaintext(content) == [ok |-> TRUE, plaintext |-> content]
OperationError == [ok |-> FALSE, plaintext |-> "none"]

\* decryptFile(ciphertext, key, iv): the tag verifies only under the key and
\* the iv of the encryption
decryptFile(ciphertext, key, iv) ==
    LET opened == {e \in AesGcm :
                      e.ciphertext = ciphertext /\ e.raw = key.raw /\ e.iv = iv}
    IN  IF opened = {} THEN OperationError
        ELSE Plaintext((CHOOSE e \in opened : TRUE).plaintext)

\* the optional parameter expiresIn?: number of uploadFile
Omitted == [given |-> FALSE, n |-> 0]
Hours(n) == [given |-> TRUE, n |-> n]

\* Number.prototype.toString of a natural number
RECURSIVE NumberToString(_)
NumberToString(n) ==
    IF n < 10 THEN <<Digits[n + 1]>>
    ELSE Append(NumberToString(n \div 10), Digits[(n % 10) + 1])

\* formData with the field expiresIn appended
WithExpiresIn(form, expiresIn) ==
    [name \in DOMAIN form \cup {"expiresIn"} |->
        IF name = "expiresIn" THEN Text(NumberToString(expiresIn.n)) ELSE form[name]]

\* uploadFile: the Authorization header and the FormData of the request;
\* if (expiresIn) formData.append('expiresIn', expiresIn.toString())
uploadFile(token, ciphertext, iv, filename, mimetype, filesize, expiresIn) ==
    LET formData == [iv |-> Text(btoa(iv)), filename |-> Text(filename),
                     mimetype |-> Text(mimetype), filesize |-> Text(filesize)]
    IN  [authorization |-> token,
         file |-> ciphertext,
         form |-> IF expiresIn.given /\ expiresIn.n # 0
                  THEN WithExpiresIn(formData, expiresIn) ELSE formData]

\* a click handler that sends the exported key along as the file's name
encryptAndUploadNamedByKey(token, file, key, iv) ==
    uploadFile(token, encryptFile(file, key, iv), iv,
               toBase64Url(exportKey(key)), file.type, file.size, Omitted)

\* the upload click handler, steps 2 and 3: encrypt, then uploadFile with
\* the ciphertext, the iv and the file's name, type and size
encryptAndUpload(token, file, key, iv) ==
    uploadFile(token, encryptFile(file, key, iv), iv, file.name, file.type, file.size,
               Omitted)

\* step 1 to the fetch of step 3: generateKey, generateIV, encrypt, build
\* the request
ClientEncryptFile(token, file, key, iv) ==
    /\ ~client.pending.active
    /\ client' = [client EXCEPT !.pending =
                     [active |-> TRUE, file |-> file, key |-> key, iv |-> iv,
                      expiresIn |-> Omitted,
                      request |-> encryptAndUpload(token, file, key, iv)]]
    /\ resp' = NoResp
    /\ UNCHANGED <<now, files, disk, usedIds, logs, hits, slots, sweep, del, nReq, nLogin>>

\* a caller of the exported uploadFile that passes the hours until expiry
ClientUploadFile(token, file, key, iv, expiresIn) ==
    /\ ~client.pending.active
    /\ client' = [client EXCEPT !.pending =
                     [active |-> TRUE, file |-> file, key |-> key, iv |-> iv,
                      expiresIn |-> expiresIn,
                      request |-> uploadFile(token, encryptFile(file, key, iv), iv,
                                             file.name, file.type, file.size, expiresIn)]]
    /\ resp' = NoResp
    /\ UNCHANGED <<now, files, disk, usedIds, logs, hits, slots, sweep, del, nReq, nLogin>>

\* the click with the one file of the form
ClientEncrypt(token, key, iv) == ClientEncryptFile(token, PickedFile, key, iv)

\* req.body as multer gives it to the route: the fields of the form
Field(form, name) == IF name \in DOMAIN form THEN form[name] ELSE Undefined

FormBody(form) ==
    [iv |-> Field(form, "iv"), filename |-> Field(form, "filename"),
     mimetype |-> Field(form, "mimetype"), expiresIn |-> Field(form, "expiresIn")]

\* the server receives the request the browser has built; the handler
\* awaits the response of its fetch, so it has one request under way
ClientUpload(req) ==
    /\ client.pending.active
    /\ \A h \in 1..MaxInflight : slots[h].pc # "insert"
    /\ UploadRequest(req, client.pending.request.authorization,
                     client.pending.request.file, FormBody(client.pending.request.form))

\* storeFileKey: sessionStorage file_keys[fileId] = keyBase64Url
storeFileKey(keys, fileId, keyBase64Url) == Put(keys, fileId, keyBase64Url)

\* step 4, on the 201 response: export the key, store it in sessionStorage,
\* and show the share link /file/<fileId>#<key>
ClientShare ==
    /\ client.pending.active
    /\ resp.route = "upload" /\ resp.status = 201
    /\ LET keyBase64Url == toBase64Url(exportKey(client.pending.key))
       IN  client' = [client EXCEPT
                        !.pending = NoUpload,
                        !.fileKeys = storeFileKey(client.fileKeys, resp.fileId, keyBase64Url),
                        !.shareLink = [fileId |-> resp.fileId, fragment |-> keyBase64Url],
                        !.uploaded = Put(client.uploaded, resp.fileId,
                                         client.pending.file.content)]
    /\ resp' = NoResp
    /\ UNCHANGED <<now, files, disk, usedIds, logs, hits, slots, sweep, del, nReq, nLogin>>

\* downloadAndDecryptFile, steps 2 to 5: the key from the fragment, the iv
\* from the response, and the decryption; any error ends in the catch
DecryptFailed == [ok |-> FALSE, plaintext |-> "none"]

downloadAndDecryptFile(fileBlob, keyBase64Url) ==
    LET keyBytes == fromBase64Url(keyBase64Url)
        ivBytes == atob(fileBlob.iv.text)
    IN  IF ~keyBytes.ok \/ ~ivBytes.ok THEN DecryptFailed
        ELSE decryptFile(fileBlob.data, importKey(keyBytes.bytes), ivBytes.bytes)

\* a download page whose catch names the cause of the failure
showMessageNamingCause(fileBlob, keyBase64Url) ==
    IF downloadAndDecryptFile(fileBlob, keyBase64Url).ok
    THEN "File downloaded and decrypted successfully!"
    ELSE IF fileBlob.fileId \in DOMAIN client.fileKeys
            /\ keyBase64Url # client.fileKeys[fileBlob.fileId]
    THEN "Wrong key."
    ELSE "Failed to decrypt file. The link may be invalid or corrupted."

\* the showMessage of downloadAndDecryptFile: the success message after
\* downloadBlob, the one message of the catch otherwise
showMessage(fileBlob, keyBase64Url) ==
    IF downloadAndDecryptFile(fileBlob, keyBase64Url).ok
    THEN "File downloaded and decrypted successfully!"
    ELSE "Failed to decrypt file. The link may be invalid or corrupted."

\* the click on the download button: the page has the key of the link and
\* the response of the blob route; it saves what the decryption gives and
\* shows its message
ClientOpen(keyBase64Url, fileBlob) ==
    /\ client' = [client EXCEPT
                     !.saved = Put(client.saved, fileBlob.fileId,
                                   downloadAndDecryptFile(fileBlob, keyBase64Url)),
                     !.message = showMessage(fileBlob, keyBase64Url)]
    /\ resp' = NoResp
    /\ UNCHANGED <<now, files, disk, usedIds, logs, hits, slots, sweep, del, nReq, nLogin>>

\* the download page of a share link, on the 200 response of the blob
\* route: the recipient saves what the decryption gives
ClientDecrypt ==
    /\ resp.route = "blob" /\ resp.status = 200
    /\ resp.fileId \in DOMAIN client.fileKeys
    /\ ClientOpen(client.fileKeys[resp.fileId], resp)

\* the fragments a recipient may arrive with: the exported key of the
\* upload, the key of another upload, and a fragment that is no base64url
LinkFragments ==
    { toBase64Url(exportKey(key)) : key \in Keys } \cup { <<"!">> }

\* what reaches the page: the response as sent, or one whose ciphertext or
\* iv was altered on the way
OtherIv == [i \in 1..IV_LENGTH |-> IV_LENGTH + 1 - i]
Alterations == {"none", "ciphertext", "iv"}
Received(fileBlob, alteration) ==
    IF alteration = "ciphertext" THEN [fileBlob EXCEPT !.data = "tampered"]
    ELSE IF alteration = "iv" THEN [fileBlob EXCEPT !.iv = Text(btoa(OtherIv))]
    ELSE fileBlob

\* the download page opened with any fragment on any received response
ClientDecryptLink(keyBase64Url, alteration) ==
    /\ resp.route = "blob" /\ resp.status = 200
    /\ ClientOpen(keyBase64Url, Received(resp, alteration))

\* the catch of the click handler: the upload failed, the key is dropped
ClientFail ==
    /\ client.pending.active
    /\ resp.route = "upload" /\ resp.status \notin {0, 201}
    /\ client' = [client EXCEPT !.pending = NoUpload]
    /\ resp' = NoResp
    /\ UNCHANGED <<now, files, disk, usedIds, logs, hits, slots, sweep, del, nReq, nLogin>>

(***************************************************************************)
(* The requests of the clients.                                            *)
(***************************************************************************)
\* every complete form from every uploader, and a request without a (valid)
\* token, without a file, with a required field missing, or with two iv fields
UploadInputs(uploaders, bodies) ==
    { [token |-> u, file |-> "ct1", body |-> b] : u \in uploaders, b \in bodies }
    \cup { [token |-> t, file |-> "ct1", body |-> ValidBody(Undefined)] :
              t \in {NoToken, BadToken} }
    \cup { [token |-> u, file |-> NoFile, body |-> ValidBody(Undefined)] : u \in uploaders }
    \cup { [token |-> u, file |-> "ct1", body |-> b] : u \in uploaders, b \in IncompleteBodies }
    \cup { [token |-> u, file |-> "ct1", body |-> RepeatedIvBody] : u \in uploaders }

Uploads(reqs, uploaders, bodies) ==
    \/ \E req \in reqs, in \in UploadInputs(uploaders, bodies) :
          UploadRequest(req, in.token, in.file, in.body)
    \/ \E h \in 1..MaxInflight : UploadInsert(h)

\* the complete forms with expiresIn absent, "0" or "1"
ShortLivedBodies == { ValidBody(e) : e \in {Undefined, Text(<<"0">>), Text(<<"1">>)} }

(***************************************************************************)
(* The system.                                                             *)
(*                                                                         *)
(* Spec is the file service: uploads with every expiresIn input,          *)
(* downloads, owner deletes and the cleanup script, for clients behind one *)
(* address, alice uploading and bob a second principal.  SpecOwners is the *)
(* same service with both principals uploading.  SpecLimiter is the        *)
(* traffic the rate limiters see: requests of two addresses to the three   *)
(* limited routes; one behaviour carries file traffic or login traffic.    *)
(* SpecReads adds the read-only routes (metadata, listing) and delete      *)
(* requests with a malformed id to the service of one uploader.            *)
(* SpecClient is the service with the browser in front of it: every upload *)
(* is one the browser has encrypted and sent.                              *)
(* SpecListing is the listing route with both principals uploading.       *)
(* SpecSweep is the cleanup script with a DELETE statement that may fail.  *)
(* SpecShare is the path of a share link: the browser encrypts and         *)
(* uploads one of two files, and a recipient downloads and decrypts.       *)
(***************************************************************************)
OneAddress == [ip : {"ip1"}, forwarded : {NoHeader}]

Downloads(reqs) ==
    \/ \E req \in reqs, fileId \in Ids \cup {MalformedId} : BlobRequest(req, fileId)
    \/ \E h \in 1..MaxInflight : BlobAccess(h)
    \/ \E h \in 1..MaxInflight : BlobRead(h)
    \/ \E h \in 1..MaxInflight : BlobFinish(h)

Deletes ==
    \/ \E token \in Tokens, fileId \in Ids : DeleteRequest(token, fileId)
    \/ DeleteRow

\* delete requests with any :fileId of the path, well-formed or not
DeletesAny ==
    \/ \E token \in Tokens, fileId \in Ids \cup {MalformedId} : DeleteRequest(token, fileId)
    \/ DeleteRow

Reads(reqs) ==
    \/ \E req \in reqs, fileId \in Ids \cup {MalformedId} : MetadataRequest(req, fileId)
    \/ \E token \in Tokens : ListRequest(token)

Cleanup ==
    \/ SweepStart
    \/ \E id \in Ids : SweepUnlink(id)
    \/ SweepDelete
    \/ SweepExit

Logins(reqs) == \E req \in reqs, cred \in Credentials : LoginRequest(req, cred)

Next ==
    \/ Tick
    \/ Downloads(OneAddress)
    \/ Uploads(OneAddress, {"alice"}, UploadBodies)
    \/ Deletes
    \/ Cleanup

Spec == Init /\ [][Next]_vars

NextOwners ==
    \/ Tick
    \/ Downloads(OneAddress)
    \/ Uploads(OneAddress, Users, ShortLivedBodies)
    \/ Deletes
    \/ Cleanup

SpecOwners == Init /\ [][NextOwners]_vars

NextLimiter ==
    \/ Tick
    \/ Downloads(Requests)
    \/ Uploads(Requests, {"alice"}, {ValidBody(Undefined)})
    \/ Logins(Requests)

SpecLimiter == Init /\ [][NextLimiter]_vars

NextReads ==
    \/ Tick
    \/ Downloads(OneAddress)
    \/ Uploads(OneAddress, {"alice"}, ShortLivedBodies)
    \/ Reads(OneAddress)
    \/ DeletesAny
    \/ Cleanup

SpecReads == Init /\ [][NextReads]_vars

\* the browser's flow
Browser ==
    \/ \E key \in Keys, iv \in Ivs : ClientEncrypt("alice", key, iv)
    \/ \E req \in OneAddress : ClientUpload(req)
    \/ \E h \in 1..MaxInflight : UploadInsert(h)
    \/ ClientShare
    \/ ClientFail

NextClient ==
    \/ Tick
    \/ Browser
    \/ Downloads(OneAddress)
    \/ Reads(OneAddress)
    \/ Deletes

SpecClient == Init /\ [][NextClient]_vars

\* the share link from the upload of a file to the recipient's download
NextShare ==
    \/ Tick
    \/ \E file \in PickedFiles, key \in Keys, iv \in Ivs :
          ClientEncryptFile("alice", file, key, iv)
    \/ \E req \in OneAddress : ClientUpload(req)
    \/ \E h \in 1..MaxInflight : UploadInsert(h)
    \/ ClientShare
    \/ ClientFail
    \/ Downloads(OneAddress)
    \/ ClientDecrypt

SpecShare == Init /\ [][NextShare]_vars

\* the share link opened with any fragment, on a response that may have
\* been altered
NextTamper ==
    \/ Tick
    \/ \E file \in PickedFiles, key \in Keys, iv \in Ivs :
          ClientEncryptFile("alice", file, key, iv)
    \/ \E req \in OneAddress : ClientUpload(req)
    \/ \E h \in 1..MaxInflight : UploadInsert(h)
    \/ ClientShare
    \/ ClientFail
    \/ Downloads(OneAddress)
    \/ \E keyBase64Url \in LinkFragments, alteration \in Alterations :
          ClientDecryptLink(keyBase64Url, alteration)

SpecTamper == Init /\ [][NextTamper]_vars

\* uploads of files within and beyond the size limit
OversizedUploads(reqs, uploaders) ==
    \E req \in reqs, u \in uploaders :
       UploadRequest(req, u, TooLarge, ValidBody(Undefined))

NextSize ==
    \/ Tick
    \/ Uploads(OneAddress, {"alice"}, UploadBodies)
    \/ OversizedUploads(OneAddress, {"alice"})

SpecSize == Init /\ [][NextSize]_vars

\* requests that arrive with and without an x-forwarded-for header
ProxiedRequests == [ip : {"ip1"}, forwarded : {NoHeader, "ip2"}]

NextProxy ==
    \/ Tick
    \/ Downloads(ProxiedRequests)
    \/ Uploads(ProxiedRequests, {"alice"}, ShortLivedBodies)

SpecProxy == Init /\ [][NextProxy]_vars

\* uploads through uploadFile with every hours-until-expiry argument
ExpiresInArguments == {Omitted, Hours(0), Hours(1), Hours(2)}

NextExpiry ==
    \/ Tick
    \/ \E key \in Keys, iv \in Ivs, expiresIn \in ExpiresInArguments :
          ClientUploadFile("alice", PickedFile, key, iv, expiresIn)
    \/ \E req \in OneAddress : ClientUpload(req)
    \/ \E h \in 1..MaxInflight : UploadInsert(h)
    \/ ClientShare
    \/ ClientFail

SpecExpiry == Init /\ [][NextExpiry]_vars

\* the listing route in front of two uploading principals
NextListing ==
    \/ Tick
    \/ Uploads(OneAddress, Users, {ValidBody(Undefined)})
    \/ \E token \in Tokens : ListRequest(token)
    \/ Deletes

SpecListing == Init /\ [][NextListing]_vars

\* the cleanup script with a DELETE that may fail, beside uploads and
\* owner deletes
NextSweep ==
    \/ Tick
    \/ Uploads(OneAddress, {"alice"}, ShortLivedBodies)
    \/ Deletes
    \/ Cleanup
    \/ SweepDeleteFails

SpecSweep == Init /\ [][NextSweep]_vars

(***************************************************************************)
(* The configuration of the limiters on its own: SpecConfig starts with a  *)
(* configured RATE_LIMIT_MAX_REQUESTS and RATE_LIMIT_WINDOW_MS and creates *)
(* the three limiters from them.                                           *)
(***************************************************************************)
MaxConfigured == 12

ConfiguredWindows == {1, 2}

InitConfig ==
    /\ now = 0
    /\ files = <<>>
    /\ disk = <<>>
    /\ usedIds = {}
    /\ logs = <<>>
    /\ \E max \in 1..MaxConfigured, windowMs \in ConfiguredWindows :
          hits = [max |-> max, windowMs |-> windowMs, limiters |-> <<>>]
    /\ slots = [h \in 1..MaxInflight |-> Idle]
    /\ sweep = SweepIdle
    /\ resp = NoResp
    /\ del = Idle
    /\ nReq = 0
    /\ nLogin = 0
    /\ client = [pending |-> NoUpload, fileKeys |-> <<>>, shareLink |-> NoLink,
                 uploaded |-> <<>>, saved |-> <<>>, message |-> "none"]

\* rateLimit({ windowMs: RATE_LIMIT_WINDOW_MS, max: ... })
CreateLimiter(policy) ==
    /\ policy \notin DOMAIN hits.limiters
    /\ hits' = [hits EXCEPT !.limiters =
                   Put(@, policy, [windowMs |-> hits.windowMs,
                                   max |-> CeilingFor(hits.max, policy)])]
    /\ UNCHANGED <<now, files, disk, usedIds, logs, slots, sweep, resp, del, nReq,
                   nLogin, client>>

NextConfig == \E policy \in Policies : CreateLimiter(policy)

SpecConfig == InitConfig /\ [][NextConfig]_vars

(***************************************************************************)
(* The codec of the share link on its own: SpecCodec starts with a byte    *)
(* sequence in the page, encodes it, and decodes the text again.           *)
(***************************************************************************)
MaxBytes == 3

\* bytes whose base64 text meets every corner of the alphabet: "A", "+",
\* "/", "-" and "_" after the replacement, and a digit
CodecBytes == {0, 16, 63, 251, 255}

ByteSeqs == UNION { [1..n -> CodecBytes] : n \in 0..MaxBytes }

InitCodec ==
    /\ now = 0
    /\ files = <<>>
    /\ disk = <<>>
    /\ usedIds = {}
    /\ logs = <<>>
    /\ hits = <<>>
    /\ slots = [h \in 1..MaxInflight |-> Idle]
    /\ sweep = SweepIdle
    /\ resp = NoResp
    /\ del = Idle
    /\ nReq = 0
    /\ nLogin = 0
    /\ \E b \in ByteSeqs : client = [stage |-> "bytes", bytes |-> b]

\* toBase64Url(bytes)
Encode ==
    /\ client.stage = "bytes"
    /\ client' = [stage |-> "encoded", bytes |-> client.bytes,
                  text |-> toBase64Url(client.bytes)]
    /\ UNCHANGED <<now, files, disk, usedIds, logs, hits, slots, sweep, resp, del,
                   nReq, nLogin>>

\* fromBase64Url(text)
Decode ==
    /\ client.stage = "encoded"
    /\ client' = [stage |-> "decoded", bytes |-> client.bytes, text |-> client.text,
                  decoded |-> fromBase64Url(client.text)]
    /\ UNCHANGED <<now, files, disk, usedIds, logs, hits, slots, sweep, resp, del,
                   nReq, nLogin>>

NextCodec ==
    \/ Encode
    \/ Decode

SpecCodec == InitCodec /\ [][NextCodec]_vars

(***************************************************************************)
(* Properties.                                                             *)
(***************************************************************************)
ExpiredReply(id) == Reply("blob", 410, id, "File has expired")
NotOwnedReply(id) == Reply("delete", 404, id, "File not found or you do not own this file")

\* the blob request of req for id passes the limiter and finds a row
BlobLookupHit(req, id) ==
    /\ BlobRequest(req, id)
    /\ Admitted("download", keyGenerator(req))
    /\ id \in DOMAIN files

\* C1: a blob request evaluated at a time now with expiryAt <= now, the
\* boundary now = expiryAt included, is answered Expired (410) and no
\* handler goes on to read the bytes.
C1_ExpiredFromExpiryOn ==
    [][\A req \in Requests, id \in Ids :
          (BlobLookupHit(req, id) /\ DateParse(files[id].expiryTime) <= now)
              => (resp' = ExpiredReply(id) /\ slots' = slots)]_vars

\* C2: every download that completes raises the stored downloadCount of
\* its record by exactly one, whatever other handlers did since its lookup,
\* and no other step changes a downloadCount: N completed downloads of a
\* record leave its count N higher.
Finishes(id) == \E h \in 1..MaxInflight : BlobFinish(h) /\ slots[h].fileId = id

C2_NoLostUpdate ==
    [][\A id \in DOMAIN files :
          /\ Finishes(id) =>
                (id \in DOMAIN files'
                    /\ files'[id].downloadCount = files[id].downloadCount + 1)
          /\ (~Finishes(id) /\ id \in DOMAIN files') =>
                files'[id].downloadCount = files[id].downloadCount]_vars

\* two downloads of one record overlapped: one has been counted while the
\* other, which looked the record up at count 0, has read the bytes
C2_Witness ==
    \E h \in 1..MaxInflight :
        /\ slots[h].pc = "update"
        /\ slots[h].file.downloadCount = 0
        /\ slots[h].fileId \in DOMAIN files
        /\ files[slots[h].fileId].downloadCount = 1

\* the records whose expiry instant is before t
PastExpiry(rows, t) == {id \in DOMAIN rows : DateParse(rows[id].expiryTime) < t}

\* C3: a run of the sweep selects every record whose expiryAt is in the past
\* and no other record, and removes each record it selected (so that a second
\* run at once finds none).
C3_SweepExact ==
    [][/\ SweepStart => sweep'.todo = PastExpiry(files, now)
       /\ SweepDelete => sweep.cur \notin DOMAIN files'
       /\ (sweep.pc # "done" /\ sweep'.pc = "done") => sweep'.todo = {}]_vars

\* the delete request of a principal for a record of another principal
NonOwnerDelete(token, id) ==
    /\ DeleteRequest(token, id)
    /\ id \in DOMAIN files
    /\ files[id].ownerId # token

\* C4: a delete request by an authenticated principal who is not the owner
\* leaves the files table, the stored bytes and the audit log as they are
\* and starts no deletion.
C4_NonOwnerDeleteChangesNothing ==
    [][\A token \in Users, id \in Ids :
          NonOwnerDelete(token, id) =>
              (files' = files /\ disk' = disk /\ logs' = logs /\ del' = Idle)]_vars

\* a record that has been downloaded, with its bytes, after the delete
\* request of a principal who does not own it
C4_Witness ==
    /\ resp.route = "delete" /\ resp.status = 404
    /\ resp.fileId \in DOMAIN files
    /\ resp.fileId \in DOMAIN disk
    /\ files[resp.fileId].downloadCount > 0

Counted(policy, ip) ==
    /\ <<policy, ip>> \in DOMAIN hits'
    /\ <<policy, ip>> \in DOMAIN hits => hits'[<<policy, ip>>] # hits[<<policy, ip>>]

\* C6: under each policy the k-th request of an address within one window is
\* rejected (429) exactly when k exceeds the ceiling; a window that has run
\* out is forgotten, so the next request is the first of a new window; a
\* request changes no counter but the one of its own policy and address.
C6_WindowCeiling ==
    /\ [](\A k \in DOMAIN hits : hits[k].resetTime > now)
    /\ [][\A policy \in Policies, ip \in Ips :
             Counted(policy, ip) =>
                /\ hits'[<<policy, ip>>].count =
                      (IF <<policy, ip>> \in DOMAIN hits
                       THEN hits[<<policy, ip>>].count + 1 ELSE 1)
                /\ (resp'.status = 429) <=> (hits'[<<policy, ip>>].count > Ceiling(policy))
                /\ \A k \in DOMAIN hits \ {<<policy, ip>>} :
                      k \in DOMAIN hits' /\ hits'[k] = hits[k]]_vars

\* the sixth login of one address in a window is rejected while the other
\* address is at its first
C6_Witness ==
    /\ resp.route = "login" /\ resp.status = 429
    /\ <<"auth", "ip1">> \in DOMAIN hits /\ hits[<<"auth", "ip1">>].count = AUTH_LIMIT_MAX + 1
    /\ <<"auth", "ip2">> \in DOMAIN hits /\ hits[<<"auth", "ip2">>].count = 1

\* C7: a blob or upload request rejected by its limiter touches neither the
\* files table nor the upload directory and starts no handler.
C7_RejectedBeforeStores ==
    [][(resp'.status = 429 /\ resp'.route \in {"blob", "upload"}) =>
          (files' = files /\ disk' = disk /\ usedIds' = usedIds /\ slots' = slots)]_vars

\* an upload is rejected while a record is stored
C7_Witness ==
    /\ resp.route = "upload" /\ resp.status = 429
    /\ DOMAIN files # {}

\* C8: every request rejected by a limiter appends a RATE_LIMITED event.
C8_RejectionAudited ==
    [][resp'.status = 429 =>
          (Len(logs') = Len(logs) + 1 /\ logs'[Len(logs')].eventType = "RATE_LIMITED")]_vars

\* C9: a record uploaded with expiresIn 0 (expiryTime = createdAt) is
\* answered Expired by any blob request for it, however soon.
C9_ZeroTtlExpiredAtOnce ==
    [][\A req \in Requests, id \in Ids :
          (BlobLookupHit(req, id) /\ files[id].expiryTime = files[id].createdAt)
              => resp' = ExpiredReply(id)]_vars

\* C10: every stored record has expiryAt > createdAt.
C10_ExpiryAfterCreation ==
    \A id \in DOMAIN files :
        DateParse(files[id].expiryTime) > DateParse(files[id].createdAt)

\* C11: a record's downloadCount starts at 0, never decreases, and changes
\* only in the step of a blob download that answers 200 with the ciphertext
\* of that record: every other step (metadata reads, listings, uploads,
\* deletes of other records, blob requests answered 400, 404, 410 or 429)
\* leaves every stored downloadCount as it is.
C11_CountChangesOnlyByDownload ==
    [][\A id \in Ids :
          /\ (id \in DOMAIN files' /\ id \notin DOMAIN files) =>
                files'[id].downloadCount = 0
          /\ (id \in DOMAIN files' /\ id \in DOMAIN files) =>
                /\ files'[id].downloadCount >= files[id].downloadCount
                /\ files'[id].downloadCount # files[id].downloadCount =>
                      /\ resp'.route = "blob" /\ resp'.status = 200
                      /\ resp'.fileId = id /\ resp'.data # "none"]_vars

\* a blob request for a downloaded record ended at the missing bytes, and
\* the record's count is still 1
C11_Witness ==
    /\ resp.route = "blob" /\ resp.status = 404
    /\ resp.data = "File data not found"
    /\ resp.fileId \in DOMAIN files
    /\ files[resp.fileId].downloadCount = 1

\* the record expires one hour after its creation
OneHour(rows, id) ==
    id \in DOMAIN rows
        /\ DateParse(rows[id].expiryTime) = DateParse(rows[id].createdAt) + 1

\* an upload with expiresIn "1" that passes the limiter and the validation
\* and writes its bytes
OneHourUpload(req, token) ==
    /\ UploadRequest(req, token, "ct1", ValidBody(Text(<<"1">>)))
    /\ resp' = NoResp

\* C12: the end-to-end sequence, step by step.  An authenticated upload with
\* expiresIn 1 is answered 201 with its id and an expiryTime one hour after
\* createdAt, and its record starts at downloadCount 0; a metadata read of
\* the record answers expired = false until the clock has passed expiryTime
\* and expired = true afterwards, with the downloadCount stored at that
\* moment; a blob request before expiryTime is served, and the download that
\* completes answers 200 with the uploaded bytes and raises the count by
\* one; a blob request after expiryTime is answered 410.
C12_EndToEnd ==
    [][/\ \A req \in Requests, token \in Users :
             OneHourUpload(req, token) =>
                \E h \in 1..MaxInflight :
                    /\ slots[h].pc = "idle" /\ slots'[h].pc = "insert"
                    /\ slots'[h].expiryTime = Date(slots'[h].createdAt + 1)
                    /\ slots'[h].createdAt = now
       /\ \A h \in 1..MaxInflight :
             (UploadInsert(h) /\ slots[h].expiryTime = Date(slots[h].createdAt + 1)) =>
                /\ resp' = Reply("upload", 201, slots[h].fileId,
                                 toISOString(slots[h].createdAt + 1))
                /\ OneHour(files', slots[h].fileId)
                /\ files'[slots[h].fileId].downloadCount = 0
       /\ \A req \in Requests, id \in Ids :
             (MetadataRequest(req, id) /\ OneHour(files, id)) =>
                /\ resp'.status = 200
                /\ resp'.data.downloadCount = files[id].downloadCount
                /\ resp'.data.expired = (now > DateParse(files[id].createdAt) + 1)
       /\ \A req \in Requests, id \in Ids :
             (BlobLookupHit(req, id) /\ OneHour(files, id)) =>
                IF now > DateParse(files[id].expiryTime)
                THEN resp' = ExpiredReply(id)
                ELSE \E h \in 1..MaxInflight :
                        /\ slots[h].pc = "idle" /\ slots'[h].pc = "access"
                        /\ slots'[h].fileId = id
       /\ \A h \in 1..MaxInflight :
             (BlobFinish(h) /\ OneHour(files, slots[h].fileId)) =>
                /\ resp' = BlobResponse(slots[h].fileId, "ct1", slots[h].file)
                /\ files'[slots[h].fileId].downloadCount =
                      files[slots[h].fileId].downloadCount + 1]_vars

\* the last metadata read of the sequence: the record of one hour, downloaded
\* once, read after its expiry
C12_Witness ==
    /\ resp.route = "metadata" /\ resp.status = 200
    /\ OneHour(files, resp.fileId)
    /\ resp.data.expired
    /\ resp.data.downloadCount = 1

\* the texts in which the browser writes a key: base64url (the fragment of
\* the share link, sessionStorage) and plain base64
KeyTexts ==
    {toBase64Url(exportKey(key)) : key \in Keys} \cup {btoa(exportKey(key)) : key \in Keys}

Ciphertexts == {encryptFile(PickedFile, key, iv) : key \in Keys, iv \in Ivs}

\* the texts of the form fields the server keeps: in a row, in a handler
\* between the write and the INSERT, and in a metadata response
StoredTexts(row) == {row.iv.text, row.filename.text, row.mimetype.text}

ServerTexts ==
    UNION {StoredTexts(files[id]) : id \in DOMAIN files}
    \cup UNION {StoredTexts(slots[h]) : h \in {g \in 1..MaxInflight : slots[g].pc = "insert"}}
    \cup (IF resp.route = "metadata" /\ resp.status = 200
          THEN {resp.data.filename.text, resp.data.mimetype.text} ELSE {})

InsertPending(id) ==
    \E h \in 1..MaxInflight : slots[h].pc = "insert" /\ slots[h].fileId = id

\* C14: in the step that makes a record visible its bytes are already in the
\* upload directory, written by an earlier step, and the upload is answered
\* 201 with that id; an upload whose INSERT fails is answered 500 and its id
\* has no record then or ever after (an id handed out gets a record only
\* from the upload handler that holds it).
C14_BytesBeforeRecord ==
    [][/\ \A id \in Ids :
             (id \in DOMAIN files' /\ id \notin DOMAIN files) =>
                /\ id \in DOMAIN disk /\ id \in DOMAIN disk' /\ disk'[id] = disk[id]
                /\ resp' = Reply("upload", 201, id, files'[id].expiryTime)
       /\ \A h \in 1..MaxInflight, id \in Ids :
             (UploadInsert(h) /\ slots[h].fileId = id /\ resp'.status # 201) =>
                /\ resp' = Reply("upload", 500, NullId, "Failed to upload file")
                /\ id \notin DOMAIN files'
                /\ ~InsertPending(id)'
       /\ \A id \in usedIds :
             (id \notin DOMAIN files /\ ~InsertPending(id)) =>
                (id \notin DOMAIN files' /\ ~InsertPending(id)')]_vars

\* an upload failed at the INSERT: its bytes are on disk and it has no record
C14_Witness ==
    /\ resp = Reply("upload", 500, NullId, "Failed to upload file")
    /\ \E id \in usedIds :
          id \notin DOMAIN files /\ id \in DOMAIN disk /\ ~InsertPending(id)

\* C15: a metadata read, a blob read and an owner delete with a malformed id
\* are each answered 400 (InvalidInput), and none of them looks the id up.
C15_MalformedIdRejected ==
    [][/\ \A req \in Requests :
             MetadataRequest(req, MalformedId) =>
                (resp'.status = 400 /\ logs' = logs)
       /\ \A req \in Requests :
             (BlobRequest(req, MalformedId) /\ Admitted("download", keyGenerator(req))) =>
                (resp'.status = 400 /\ logs' = logs)
       /\ \A token \in Users :
             DeleteRequest(token, MalformedId) => resp'.status = 400]_vars

\* C16: a metadata read from an address that has exceeded the download
\* ceiling within the running window is answered 429, as its blob reads are.
C16_MetadataThrottled ==
    [][\A req \in Requests, id \in Ids :
          (MetadataRequest(req, id)
              /\ HitsOf("download", keyGenerator(req)) > Ceiling("download"))
              => resp'.status = 429]_vars

\* C17: after a metadata or blob request is answered 404 "File not found",
\* the audit log holds a NOT_FOUND event with the id of the request.
C17_NotFoundAudited ==
    [][(resp'.route \in {"metadata", "blob"} /\ resp'.status = 404
            /\ resp'.data = "File not found") =>
          \E i \in DOMAIN logs' :
              logs'[i].eventType = "NOT_FOUND" /\ logs'[i].fileId = resp'.fileId]_vars

\* C18: the audit log only grows at its end: no step changes or removes an
\* event that has been appended.
C18_LedgerWriteOnce ==
    [][/\ Len(logs') >= Len(logs)
       /\ \A i \in DOMAIN logs : logs'[i] = logs[i]]_vars

\* the step appended no event
NothingAppended == logs' = logs

\* C19: a handler that writes an audit event gives the same response and
\* has the same effect on the files table and the upload directory whether
\* the event is appended or the INSERT fails: a request for an id without a
\* record is answered 404 (its NOT_FOUND event is refused by the foreign
\* key), an expired record is answered 410, and a download that completes
\* is answered 200 with the bytes and counted, also when its DOWNLOAD_OK
\* event is refused because the record has been deleted meanwhile.
C19_AuditFailureSwallowed ==
    [][/\ \A req \in Requests, id \in Ids :
             (BlobRequest(req, id) /\ Admitted("download", keyGenerator(req))
                 /\ id \notin DOMAIN files) =>
                /\ resp' = Reply("blob", 404, id, "File not found")
                /\ files' = files /\ disk' = disk
       /\ \A req \in Requests, id \in Ids :
             (MetadataRequest(req, id) /\ id \notin DOMAIN files) =>
                /\ resp' = Reply("metadata", 404, id, "File not found")
                /\ files' = files /\ disk' = disk
       /\ \A req \in Requests, id \in Ids :
             (BlobLookupHit(req, id) /\ IsExpired(now, files[id].expiryTime)) =>
                /\ resp' = ExpiredReply(id)
                /\ files' = files /\ disk' = disk
       /\ \A h \in 1..MaxInflight :
             BlobFinish(h) =>
                /\ resp' = BlobResponse(slots[h].fileId, slots[h].ciphertext, slots[h].file)
                /\ files' = IncrementDownloadCount(files, h)
                /\ disk' = disk
                /\ slots[h].fileId \notin DOMAIN files => NothingAppended]_vars

\* a download was answered 200 although its DOWNLOAD_OK event could not be
\* written: the record was deleted while the handler held the bytes
C19_Witness ==
    /\ resp.route = "blob" /\ resp.status = 200
    /\ resp.fileId \notin DOMAIN files
    /\ \A i \in DOMAIN logs : logs[i].eventType # "DOWNLOAD_OK"

\* the record of id is past its expiry, or the id was handed out and has no
\* record (deleted by its owner or by the sweep, or never committed)
NotActive(id) ==
    \/ id \in DOMAIN files /\ IsExpired(now, files[id].expiryTime)
    \/ id \in usedIds /\ id \notin DOMAIN files /\ ~InsertPending(id)

\* C20: an id that is expired or deleted stays so in every later state, a
\* blob request for it starts no download and is answered 404, 410 or 429,
\* and an upload is never given an id that was handed out before.
C20_NoReturnToActive ==
    [][/\ \A id \in Ids :
             NotActive(id) =>
                /\ NotActive(id)'
                /\ \A req \in Requests :
                      BlobRequest(req, id) =>
                         (slots' = slots /\ resp'.status \in {404, 410, 429})
       /\ usedIds \subseteq usedIds'
       /\ \A h \in 1..MaxInflight :
             (slots[h].pc = "idle" /\ slots'[h].pc = "insert") =>
                (slots'[h].fileId \notin usedIds /\ slots'[h].fileId \in usedIds')]_vars

\* a blob request for the id of a deleted record is answered 404 while
\* another record is stored
C20_Witness ==
    /\ resp.route = "blob" /\ resp.status = 404 /\ resp.data = "File not found"
    /\ resp.fileId \in usedIds
    /\ NotActive(resp.fileId)
    /\ DOMAIN files # {}

(***************************************************************************)
(* C21.  Every mutation of the registry needs an authenticated identity:   *)
(* an upload or delete request without a valid token is answered 401 or    *)
(* 403 and changes neither the registry nor the blob store; an accepted    *)
(* upload is carried out for the token's user, and the row it inserts has  *)
(* that user as ownerId; a delete request is carried out only for the      *)
(* owner of the row, and the row it removes belongs to the requester.      *)
(***************************************************************************)
\* the request carries no token, or one that does not verify
Unauthenticated(token) == token \notin Users

C21_MutationsAuthenticated ==
    [][ /\ nReq' # nReq =>
              \A req \in OneAddress, token \in Tokens :
                 ( /\ Unauthenticated(token)
                   /\ UploadRequest(req, token, "ct1", ValidBody(Undefined)) ) =>
                    /\ resp'.status \in {401, 403}
                    /\ UNCHANGED <<files, disk, usedIds, slots, logs>>
        /\ \A h \in 1..MaxInflight :
              (slots[h].pc = "idle" /\ slots'[h].pc = "insert") =>
                 /\ slots'[h].user \in Users
                 /\ \E req \in OneAddress, in \in UploadInputs(Users, ShortLivedBodies) :
                       /\ in.token = slots'[h].user
                       /\ UploadRequest(req, in.token, in.file, in.body)
        /\ resp'.route = "delete" =>
              \A token \in Tokens, id \in Ids :
                 (Unauthenticated(token) /\ DeleteRequest(token, id)) =>
                    /\ resp'.status \in {401, 403}
                    /\ UNCHANGED <<files, disk, del, logs>>
        /\ (del.pc = "idle" /\ del'.pc = "delete_row") =>
              /\ del'.user \in Users
              /\ del'.fileId \in DOMAIN files
              /\ files[del'.fileId].ownerId = del'.user
              /\ DeleteRequest(del'.user, del'.fileId)
        /\ \A id \in Ids :
              (id \in DOMAIN files' /\ id \notin DOMAIN files) =>
                 \E h \in 1..MaxInflight :
                    /\ slots[h].pc = "insert" /\ slots[h].fileId = id
                    /\ slots[h].user \in Users
                    /\ files'[id].ownerId = slots[h].user
        /\ (DeleteRow /\ del.fileId \in DOMAIN files) =>
              /\ del.user \in Users
              /\ files[del.fileId].ownerId = del.user
      ]_vars

\* a delete request without a token has been refused for a record that is
\* still there with its bytes, and the other principal has a record too
C21_Witness ==
    /\ resp.route = "delete" /\ resp.status = 401
    /\ resp.fileId \in DOMAIN files /\ resp.fileId \in DOMAIN disk
    /\ \E id \in DOMAIN files : files[id].ownerId # files[resp.fileId].ownerId

(***************************************************************************)
(* C22.  An upload whose iv, filename or mimetype is missing or empty is   *)
(* refused as invalid input: an authenticated request the limiter lets     *)
(* through is answered 400 "IV, filename, and mimetype are required", no   *)
(* row is inserted, no bytes are written, and no id is drawn.              *)
(***************************************************************************)
MissingMetadata == Reply("upload", 400, NullId, "IV, filename, and mimetype are required")

C22_IncompleteUploadRejected ==
    [][ \A req \in OneAddress, body \in IncompleteBodies :
           ( /\ Admitted("upload", keyGenerator(req))
             /\ UploadRequest(req, "alice", "ct1", body) ) =>
              /\ resp' = MissingMetadata
              /\ UNCHANGED <<files, disk, usedIds, slots>>
              /\ Len(logs') = Len(logs) + 1
              /\ logs'[Len(logs')].eventType = "UPLOAD_FAILED"
      ]_vars

\* the incomplete upload has been refused as the first request ever made:
\* registry and blob store are still empty
C22_Witness ==
    /\ resp = MissingMetadata
    /\ files = <<>> /\ disk = <<>> /\ usedIds = {}
    /\ Len(logs) = 1 /\ logs[1].eventType = "UPLOAD_FAILED"

(***************************************************************************)
(* C23.  The listing of an authenticated principal holds exactly the rows  *)
(* whose ownerId is the principal's id, each once and none of another      *)
(* principal, and the entries come newest first: no entry is created       *)
(* before an entry that follows it.                                        *)
(***************************************************************************)
C23_ListingExact ==
    [][ resp'.route = "list" =>
           \A token \in Users :
              ListRequest(token) =>
                 /\ resp'.status = 200
                 /\ LET d == resp'.data
                        mine == {id \in DOMAIN files : files[id].ownerId = token}
                    IN /\ {d[i].id : i \in DOMAIN d} = mine
                       /\ Len(d) = Cardinality(mine)
                       /\ \A i \in DOMAIN d : d[i].createdAt = files[d[i].id].createdAt
                       /\ \A i, j \in DOMAIN d :
                             i < j => DateParse(d[i].createdAt) >= DateParse(d[j].createdAt)
      ]_vars

\* a listing of one entry has been answered while the registry holds a
\* record of each principal
C23_Witness ==
    /\ resp.route = "list" /\ resp.status = 200
    /\ Len(resp.data) = 1
    /\ \E a, b \in DOMAIN files : files[a].ownerId # files[b].ownerId

(***************************************************************************)
(* C24.  A metadata read tells a missing record from a lapsed one.  As     *)
(* stated: the read of an id without a record is answered with a body      *)
(* whose exists is false (and expired is not true), the read of a lapsed   *)
(* record with exists true and expired true.                               *)
(***************************************************************************)
C24_MissingSignalledByExistsFalse ==
    [][ resp'.route = "metadata" =>
           \A req \in OneAddress, id \in Ids :
              MetadataRequest(req, id) =>
                 IF id \notin DOMAIN files
                 THEN /\ resp'.status = 200
                      /\ ~resp'.data.exists /\ ~resp'.data.expired
                 ELSE /\ resp'.status = 200
                      /\ resp'.data.exists
                      /\ resp'.data.expired <=> now > DateParse(files[id].expiryTime)
      ]_vars

(***************************************************************************)
(* C24, as the code has it.  The read of an id without a record is         *)
(* answered 404 "File not found" and carries no metadata body; the read of *)
(* a record is answered 200 with exists true, and expired true exactly     *)
(* when the record is past its expiry.  No body carries exists false, so   *)
(* none carries exists false together with expired true.                   *)
(***************************************************************************)
C24_MissingIsNotFound ==
    [][ resp'.route = "metadata" =>
           \A req \in OneAddress, id \in Ids :
              MetadataRequest(req, id) =>
                 IF id \notin DOMAIN files
                 THEN resp' = Reply("metadata", 404, id, "File not found")
                 ELSE /\ resp'.status = 200
                      /\ resp'.data.exists
                      /\ resp'.data.expired <=> now > DateParse(files[id].expiryTime)
      ]_vars

\* the metadata of a record past its expiry has been read
C24_Witness ==
    /\ resp.route = "metadata" /\ resp.status = 200
    /\ resp.fileId \in DOMAIN files
    /\ resp.data.exists /\ resp.data.expired
    /\ now > DateParse(files[resp.fileId].expiryTime)

(***************************************************************************)
(* C26.  The key codec of the share link is a round trip: for every byte   *)
(* sequence b, fromBase64Url(toBase64Url(b)) decodes without an error to   *)
(* b itself, and toBase64Url(b) holds none of "+", "/" and "=".            *)
(***************************************************************************)
C26_Base64UrlRoundTrip ==
    client.stage = "decoded" =>
       /\ client.decoded = Decoded(client.bytes)
       /\ \A i \in DOMAIN client.text : client.text[i] \notin {"+", "/", "="}

\* a sequence whose base64 text has "+", "/" and padding has gone through
\* the codec
C26_Witness ==
    /\ client.stage = "decoded"
    /\ client.bytes = <<251, 255>>
    /\ btoa(client.bytes) = <<"+", "/", "8", "=">>
    /\ client.text = <<"-", "_", "8">>
    /\ client.decoded.ok

(***************************************************************************)
(* C25.  Every row of the registry has an iv that is the base64 text of    *)
(* exactly twelve bytes: an upload whose iv does not decode to twelve      *)
(* bytes inserts no row.                                                   *)
(***************************************************************************)
\* the text decodes, and to the length of an AES-GCM iv
DecodesToIv(f) ==
    /\ IsString(f)
    /\ atob(f.text).ok
    /\ Len(atob(f.text).bytes) = IV_LENGTH

C25_StoredIvIsTwelveBytes ==
    \A id \in DOMAIN files : DecodesToIv(files[id].iv)

C28_RemovedBytesAnsweredNotFound ==
    [][ \A h \in 1..MaxInflight :
           ( /\ slots[h].pc \in {"access", "read"}
             /\ slots[h].fileId \notin DOMAIN disk
             /\ BlobAccess(h) \/ BlobRead(h) ) =>
              /\ resp'.route = "blob" /\ resp'.status = 404
              /\ files' = files
      ]_vars

(***************************************************************************)
(* C29.  In every state, the intermediate states of an owner delete and of *)
(* the cleanup script included, every row of the registry has its bytes in *)
(* the blob store.                                                         *)
(***************************************************************************)
C29_NoRowWithoutBytes ==
    \A id \in DOMAIN files : id \in DOMAIN disk

(***************************************************************************)
(* C30.  An owner delete whose removal of the bytes fails still removes    *)
(* the row and reports success: the request goes on to the DELETE after    *)
(* the error of unlinkSync, the row is gone after it, and the response is  *)
(* 200 "File deleted successfully"; no error response is sent.             *)
(***************************************************************************)
C30_DiskFailureNotSurfaced ==
    [][ /\ \A token \in Users, id \in Ids :
              ( /\ id \in DOMAIN files /\ files[id].ownerId = token
                /\ id \notin DOMAIN disk
                /\ DeleteRequest(token, id) ) =>
                 /\ resp' = NoResp
                 /\ del' = [pc |-> "delete_row", fileId |-> id, user |-> token,
                            failed |-> TRUE]
        /\ (del.pc = "delete_row" /\ del.failed /\ DeleteRow) =>
              /\ del.fileId \notin DOMAIN files'
              /\ resp' = Reply("delete", 200, del.fileId, "File deleted successfully")
      ]_vars

\* the owner's delete has met the error of unlinkSync, the cleanup script
\* having removed the bytes, and is about to delete the row
C30_Witness ==
    /\ del.pc = "delete_row" /\ del.failed
    /\ del.fileId \in DOMAIN files /\ files[del.fileId].ownerId = del.user
    /\ del.fileId \notin DOMAIN disk
    /\ sweep.pc = "delete" /\ sweep.cur = del.fileId

(***************************************************************************)
(* C31.  The cleanup script never gives up on a batch: of the k rows it    *)
(* has selected, each one is either still to be processed, counted as      *)
(* deleted, or counted as an error; when the script prints its summary     *)
(* nothing is left to process, so deletedCount + errorCount = k, whether   *)
(* a file was missing on disk or a DELETE failed on the way.               *)
(***************************************************************************)
C31_SweepTalliesAddUp ==
    /\ sweep.pc # "idle" =>
          sweep.deletedCount + sweep.errorCount + Cardinality(sweep.todo) = sweep.total
    /\ sweep.pc = "done" =>
          /\ sweep.todo = {}
          /\ sweep.deletedCount + sweep.errorCount = sweep.total

\* a batch of two has ended with one row deleted and one error, the failed
\* row still in the registry
C31_Witness ==
    /\ sweep.pc = "done" /\ sweep.total = 2
    /\ sweep.deletedCount = 1 /\ sweep.errorCount = 1
    /\ Cardinality(DOMAIN files) = 1

(***************************************************************************)
(* C32.  A lapsed record is destroyed by the access that finds it lapsed:  *)
(* when a blob request is answered 410 "File has expired", the row and     *)
(* the bytes of that id are gone after the request.                        *)
(***************************************************************************)
C32_ExpiredAccessDestroys ==
    [][ \A req \in OneAddress, id \in Ids :
           ( /\ id \in DOMAIN files
             /\ BlobRequest(req, id)
             /\ resp'.route = "blob" /\ resp'.status = 410 ) =>
              /\ id \notin DOMAIN files'
              /\ id \notin DOMAIN disk'
      ]_vars

C34_CeilingsOrdered ==
    (DOMAIN hits.limiters = Policies) =>
       LET l == hits.limiters
       IN  /\ l["download"].max >= l["upload"].max
           /\ l["download"].max >= l["auth"].max
           /\ l["upload"].max = hits.max \div 2
           /\ l["upload"].max >= 1
           /\ l["download"].windowMs = l["upload"].windowMs
           /\ l["upload"].windowMs = l["auth"].windowMs


\* C35: for every successful upload the stored and the returned expiry
\* are the creation time plus the hours the caller of uploadFile supplied
\* (0 included), and plus the configured default only when none was given.
C35_ExpiryIsCreationPlusTtl ==
    [][ ( /\ client.pending.active
          /\ resp'.route = "upload" /\ resp'.status = 201
          /\ files' # files ) =>
            LET row == files'[resp'.fileId]
                ttlHours == IF client.pending.expiresIn.given
                            THEN client.pending.expiresIn.n
                            ELSE DEFAULT_EXPIRY_HOURS
            IN  /\ DateParse(row.expiryTime) = DateParse(row.createdAt) + ttlHours
                /\ resp'.data = row.expiryTime ]_vars


\* the tag of a received response verifies under the key of a fragment:
\* the ciphertext is the encryption of some file under that key and the
\* iv of the response
TagVerifies(fileBlob, keyBase64Url) ==
    /\ fromBase64Url(keyBase64Url).ok
    /\ atob(fileBlob.iv.text).ok
    /\ \E e \in AesGcm :
          /\ e.ciphertext = fileBlob.data
          /\ e.raw = fromBase64Url(keyBase64Url).bytes
          /\ e.iv = atob(fileBlob.iv.text).bytes

\* C36: when the tag does not verify (altered ciphertext, wrong key or
\* wrong iv) the page saves no plaintext and shows the one message
\* "Failed to decrypt file. The link may be invalid or corrupted.",
\* whatever the cause.
C36_FailedDecryptionSavesNothing ==
    [][ \A keyBase64Url \in LinkFragments, alteration \in Alterations :
          ( /\ ClientDecryptLink(keyBase64Url, alteration)
            /\ ~TagVerifies(Received(resp, alteration), keyBase64Url) ) =>
               /\ ~client'.saved[resp.fileId].ok
               /\ client'.saved[resp.fileId].plaintext = "none"
               /\ client'.message =
                     "Failed to decrypt file. The link may be invalid or corrupted." ]_vars

C36_Witness ==
    /\ client.message = "Failed to decrypt file. The link may be invalid or corrupted."
    /\ \E id \in DOMAIN client.saved :
          /\ ~client.saved[id].ok
          /\ id \in DOMAIN client.fileKeys
          /\ id \in DOMAIN files


\* C37: the downloadCount written into the detail of a DOWNLOAD_OK event
\* is the stored downloadCount of the record right after the increment of
\* that download, whatever other downloads of the same id are under way.
C37_LoggedCountIsStoredCount ==
    [][ \A h \in 1..MaxInflight :
          ( /\ slots[h].pc = "update" /\ slots'[h] = Idle
            /\ resp'.route = "blob" /\ resp'.status = 200
            /\ Len(logs') = Len(logs) + 1
            /\ logs'[Len(logs')].eventType = "DOWNLOAD_OK" ) =>
               logs'[Len(logs')].extra = files'[slots[h].fileId].downloadCount ]_vars


\* C38: for every record and every time the expired flag of the metadata
\* read, the expired flag of the owner listing and the Expired decision of
\* the blob read are the same, and a record the sweep selects at that time
\* is one the blob read judges Expired.
C38_ExpiryJudgementsAgree ==
    \A id \in DOMAIN files :
       /\ FileMetadataResponse(files[id], now).expired = IsExpired(now, files[id].expiryTime)
       /\ FileInfo(files, id, now).expired = IsExpired(now, files[id].expiryTime)
       /\ id \in SelectExpired(files, now) => IsExpired(now, files[id].expiryTime)


\* an upload has been answered on this step: by the request itself, or by
\* the INSERT of a handler under way
UploadAnswered ==
    /\ resp'.route = "upload"
    /\ \/ nReq' # nReq
       \/ \E h \in 1..MaxInflight : slots[h].pc = "insert" /\ slots'[h].pc = "idle"

\* C39: an upload answered with a failure status has created no record; an
\* upload answered with success has created exactly one record, under the
\* returned id, with downloadCount 0 and the uploaded ciphertext as its
\* bytes; and an upload of a file beyond the size limit that reaches multer
\* is answered 413 "File too large" and creates no record.
C39_UploadAllOrNothing ==
    [][ UploadAnswered =>
          /\ resp'.status # 201 => files' = files
          /\ resp'.status = 201 =>
                /\ resp'.fileId \notin DOMAIN files
                /\ DOMAIN files' = DOMAIN files \cup {resp'.fileId}
                /\ \A id \in DOMAIN files : files'[id] = files[id]
                /\ files'[resp'.fileId].downloadCount = 0
                /\ resp'.fileId \in DOMAIN disk'
                /\ disk'[resp'.fileId] = "ct1"
          /\ \A req \in OneAddress :
                ( /\ UploadRequest(req, "alice", TooLarge, ValidBody(Undefined))
                  /\ resp'.status # 429 ) =>
                     /\ resp'.status = 413
                     /\ files' = files ]_vars


\* C40: the source address written into the audit event of a request is
\* the address under which the rate limiter counted that request,
\* whatever headers the request carries.
C40_LoggedAddressIsLimiterKey ==
    [][ Len(logs') = Len(logs) + 1 =>
          \A req \in ProxiedRequests :
             /\ \A id \in Ids :
                   BlobRequest(req, id) => logs'[Len(logs')].ip = keyGenerator(req)
             /\ UploadRequest(req, "alice", NoFile, ValidBody(Undefined)) =>
                   logs'[Len(logs')].ip = keyGenerator(req) ]_vars

====
